---- MODULE Spec2Model ----
(***************************************************************************)
(* A model of src/src/wopr/merge_summary.py: the merge of two ULTRA        *)
(* summary files (parse, combine, re-index, serialise, sign, save), the    *)
(* merge of two directories of summary files, and the way of an elite      *)
(* percentile from an input through a merge into the output and back.      *)
(*                                                                         *)
(* Three specifications share the variables: Spec follows one call of      *)
(* merge_ultra_files, SpecDirs one call of merge_ultra_dirs, SpecPercentile*)
(* one percentile attribute; each keeps the variables of the others idle.  *)
(*                                                                         *)
(* Conventions of the model                                                *)
(*   - an optional value is the empty sequence (None) or a one-element     *)
(*     sequence (Some(v));                                                 *)
(*   - a Python float that only gets compared and copied (fitness,         *)
(*     accuracy) is an integer, with the sentinels NaN and PosInf for the  *)
(*     non-finite values float() accepts;                                  *)
(*   - a Python float that enters arithmetic (success rate, mean, standard *)
(*     deviation) is a fixed-point integer counting 1/FScale;              *)
(*   - an elite percentile is the pair [q, e] standing for the decimal     *)
(*     q/100 + e * 1e-13, so that both the percent conversion (a factor of *)
(*     100) and the 1e-12 tolerance are exact integer computations;        *)
(*   - an XML document is the record of its nodes' texts; tostring renders *)
(*     it as a sequence of octets, one octet per markup token and one per  *)
(*     character of text.                                                  *)
(***************************************************************************)
EXTENDS Integers, Sequences, FiniteSets, TLC

\* ------------------------------------------------------------------------
\*  Bounds of the model.
\* ------------------------------------------------------------------------
MaxRuns == 2
MaxSol == 2
MaxElite == 2

\* ------------------------------------------------------------------------
\*  Values.
\* ------------------------------------------------------------------------
None == << >>
Some(v) == << v >>

\* NaN is a sentinel: it is never ordered, every comparison of floats that can
\* meet it goes through FloatGE.
NaN == 1000001
PosInf == 1000000
NegInf == 0 - PosInf
isfinite(x) == x \notin {NaN, PosInf, NegInf}

\* Python's x >= y on floats: false as soon as one side is NaN.
FloatGE(x, y) == x # NaN /\ y # NaN /\ x >= y

FScale == 10

CHECKSUM_LENGTH == 8

Min(a, b) == IF a < b THEN a ELSE b
Max(a, b) == IF a > b THEN a ELSE b
Abs(a) == IF a < 0 THEN 0 - a ELSE a

\* ------------------------------------------------------------------------
\*  CRC32 (ISO 3309, reflected polynomial 0xEDB88320), computed on the
\*  eight 4-bit digits of the register, least significant first.
\* ------------------------------------------------------------------------
RECURSIVE Pow2(_)
Pow2(n) == IF n = 0 THEN 1 ELSE 2 * Pow2(n - 1)

BitsOf(n, w) == {i \in 0..(w - 1) : (n \div Pow2(i)) % 2 = 1}

\* 0xEDB88320
PolyBits == {31, 30, 29, 27, 26, 24, 23, 21, 20, 19, 15, 9, 8, 5}

BitXor(S, T) == {i \in 0..31 : (i \in S) # (i \in T)}
BitShr1(S) == {i \in 0..30 : (i + 1) \in S}
BitStep(S) == IF 0 \in S THEN BitXor(BitShr1(S), PolyBits) ELSE BitShr1(S)

NibbleOf(S, k) == (IF 4 * k \in S THEN 1 ELSE 0) + (IF 4 * k + 1 \in S THEN 2 ELSE 0)
                  + (IF 4 * k + 2 \in S THEN 4 ELSE 0) + (IF 4 * k + 3 \in S THEN 8 ELSE 0)
NibblesOf(S) == [j \in 1..8 |-> NibbleOf(S, j - 1)]

\* The byte table of the table-driven CRC: eight bit steps of each octet.
CrcTable == [b \in 0..255 |->
               NibblesOf(BitStep(BitStep(BitStep(BitStep(
                         BitStep(BitStep(BitStep(BitStep(BitsOf(b, 8))))))))))]

XorN == [a \in 0..15 |-> [b \in 0..15 |->
           NibbleOf({i \in 0..3 : (i \in BitsOf(a, 4)) # (i \in BitsOf(b, 4))}, 0)]]

\* One octet: crc = table[(crc ^ octet) & 0xFF] ^ (crc >> 8).
CrcByte(c, octet) ==
    LET T == CrcTable[XorN[c[1]][octet % 16] + 16 * XorN[c[2]][octet \div 16]]
    IN  << XorN[T[1]][c[3]], XorN[T[2]][c[4]], XorN[T[3]][c[5]],
           XorN[T[4]][c[6]], XorN[T[5]][c[7]], XorN[T[6]][c[8]], T[7], T[8] >>

RECURSIVE CrcUpdate(_, _, _)
CrcUpdate(c, data, i) ==
    IF Len(c) # 8 \/ i > Len(data) THEN c
    ELSE CrcUpdate(CrcByte(c, data[i]), data, i + 1)

\* 'A' - 10 = 55, '0' = 48: uppercase hexadecimal digits.
HexChar(d) == IF d < 10 THEN 48 + d ELSE 55 + d

\* zlib.crc32(data) & 0xFFFFFFFF formatted as f"{crc:08X}".
compute_crc32(data) ==
    LET c == CrcUpdate([j \in 1..8 |-> 15], data, 1)
    IN  [j \in 1..CHECKSUM_LENGTH |-> HexChar(15 - c[9 - j])]

\* ------------------------------------------------------------------------
\*  Texts: sequences of octets.
\* ------------------------------------------------------------------------
RECURSIVE NatText(_)
NatText(n) == IF n < 10 THEN << 48 + n >> ELSE Append(NatText(n \div 10), 48 + (n % 10))

\* str(n) of an int.
IntText(n) == IF n < 0 THEN << 45 >> \o NatText(0 - n) ELSE NatText(n)

\* The decimal digits of n, zero-padded on the left to w digits.
RECURSIVE Digits(_, _)
Digits(n, w) == IF w = 0 THEN << >> ELSE Append(Digits(n \div 10, w - 1), 48 + (n % 10))

RECURSIVE TrimZeros(_)
TrimZeros(t) == IF t # << >> /\ t[Len(t)] = 48 THEN TrimZeros(SubSeq(t, 1, Len(t) - 1)) ELSE t

\* f"{x:.12g}" of a float that is an integer, nan or inf.
FloatText(x) ==
    IF x = NaN THEN << 110, 97, 110 >>
    ELSE IF x = PosInf THEN << 105, 110, 102 >>
    ELSE IntText(x)

\* f"{x:.12g}" of a fixed-point float x / FScale: the trailing zero and the
\* point are dropped.
FixText(x) ==
    LET a == Abs(x)
        frac == TrimZeros(Digits(a % FScale, 1))
    IN  (IF x < 0 THEN << 45 >> ELSE << >>) \o NatText(a \div FScale)
        \o (IF frac = << >> THEN << >> ELSE << 46 >> \o frac)

\* A decimal [q, e] = q/100 + e * 1e-13 written in fixed notation.
DecText(d) ==
    LET a == Abs(d.q)
        frac == TrimZeros(Digits(a % 100, 2) \o Digits(d.e, 11))
    IN  (IF d.q < 0 THEN << 45 >> ELSE << >>) \o NatText(a \div 100)
        \o (IF frac = << >> THEN << >> ELSE << 46 >> \o frac)

\* ------------------------------------------------------------------------
\*  Parsing.  A file is None (no such file) or Some(document); a document
\*  is the record
\*    [bad, runs, elapsed_time, success_rate, mean, standard_deviation,
\*     best_fitness, best_accuracy, best_run, best_code, solutions, elite,
\*     checksum]
\*  where bad is the set of the nodes that are absent, empty or not numeric
\*  ("xml" when the text is not well-formed), elite is None or
\*  Some([percentile, runs]) and an elite run is [bad, id, fitness, accuracy]
\*  with fitness and accuracy optional.
\* ------------------------------------------------------------------------
Ok(v) == [ok |-> TRUE, err |-> "", val |-> v]
Err(e) == [ok |-> FALSE, err |-> e, val |-> None]

\* len(set(xs)) == len(xs)
NoDup(xs) == Cardinality({xs[i] : i \in DOMAIN xs}) = Len(xs)

DecGT1(v) == v.q > 100 \/ (v.q = 100 /\ v.e > 0)

\* frac = v / 100.0 if v > 1.0 else v, then 0.0 <= frac <= 1.0.  The
\* division is exact on the decimals of the model (q and e multiples of 100).
_parse_percentile_attr(elite_node) ==
    IF "percentile" \in elite_node.bad
    THEN Err("elite: percentile missing or not numeric")
    ELSE LET v == elite_node.percentile
             frac == IF DecGT1(v) THEN [q |-> v.q \div 100, e |-> v.e \div 100] ELSE v
         IN  IF frac.q >= 0 /\ ~DecGT1(frac)
             THEN Ok(frac)
             ELSE Err("elite: percentile out of range")

\* A plausible slip: the range check of the id of an elite run is left out.
EliteRunError_range_forgotten(run_node, runs) ==
    IF "id" \in run_node.bad THEN "elite run: id missing or not an int"
    ELSE IF "fitness" \in run_node.bad THEN "elite/fitness is not a float"
    ELSE IF "accuracy" \in run_node.bad THEN "elite/accuracy is not a float"
    ELSE ""

\* The error of one <elite><run> node, "" when it has none.
EliteRunError(run_node, runs) ==
    IF "id" \in run_node.bad THEN "elite run: id missing or not an int"
    ELSE IF run_node.id < 0 \/ run_node.id >= runs THEN "elite run: id out of range"
    ELSE IF "fitness" \in run_node.bad THEN "elite/fitness is not a float"
    ELSE IF "accuracy" \in run_node.bad THEN "elite/accuracy is not a float"
    ELSE ""

parse_elite(summary, runs) ==
    IF summary.elite = None THEN Ok(None)
    ELSE LET elite_node == summary.elite[1]
             frac == _parse_percentile_attr(elite_node)
             nodes == elite_node.runs
             failing == {i \in DOMAIN nodes : EliteRunError(nodes[i], runs) # ""}
             items == [i \in DOMAIN nodes |->
                         [id |-> nodes[i].id, fitness |-> nodes[i].fitness,
                          accuracy |-> nodes[i].accuracy]]
         IN  IF ~frac.ok THEN frac
             ELSE IF failing # {}
             THEN Err(EliteRunError(nodes[CHOOSE i \in failing : \A j \in failing : i <= j], runs))
             ELSE IF ~NoDup([i \in DOMAIN items |-> items[i].id])
             THEN Err("duplicate ids in elite")
             ELSE Ok(Some([frac |-> frac.val, items |-> items]))

parse_ultra_file(file) ==
    IF file = None THEN Err("file not found")
    ELSE LET t == file[1]
             runs == t.runs
             elite == parse_elite(t, runs)
         IN  IF "xml" \in t.bad THEN Err("XML parse error")
             ELSE IF "summary" \in t.bad THEN Err("missing required node summary")
             ELSE IF "runs" \in t.bad THEN Err("runs: missing, empty or not an int")
             ELSE IF runs <= 0 THEN Err("runs must be positive")
             ELSE IF "elapsed_time" \in t.bad THEN Err("elapsed_time: missing, empty or not an int")
             ELSE IF t.elapsed_time < 0 THEN Err("elapsed_time must be non-negative")
             ELSE IF "success_rate" \in t.bad THEN Err("success_rate: missing, empty or not a float")
             ELSE IF ~(0 <= t.success_rate /\ t.success_rate <= FScale)
             THEN Err("success_rate out of range")
             ELSE IF "mean" \in t.bad THEN Err("mean: missing, empty or not a float")
             ELSE IF ~isfinite(t.mean) THEN Err("mean must be finite")
             ELSE IF "standard_deviation" \in t.bad
             THEN Err("standard_deviation: missing, empty or not a float")
             ELSE IF ~isfinite(t.standard_deviation) \/ t.standard_deviation < 0
             THEN Err("standard_deviation must be finite and non-negative")
             ELSE IF "best/fitness" \in t.bad THEN Err("best/fitness: missing, empty or not a float")
             ELSE IF "best/accuracy" \in t.bad THEN Err("best/accuracy: missing, empty or not a float")
             ELSE IF "best/run" \in t.bad THEN Err("best/run: missing, empty or not an int")
             ELSE IF t.best_run < 0 \/ t.best_run >= runs THEN Err("best/run out of range")
             ELSE IF "best/code" \in t.bad \/ t.best_code = << >>
             THEN Err("best/code: missing or empty")
             ELSE IF "solutions" \in t.bad THEN Err("missing required node solutions")
             ELSE IF "solutions/run" \in t.bad THEN Err("solutions: empty or non-integer run")
             ELSE IF \E i \in DOMAIN t.solutions : t.solutions[i] < 0
             THEN Err("solutions contains negative run index")
             ELSE IF \E i \in DOMAIN t.solutions : t.solutions[i] >= runs
             THEN Err("solutions contains run index >= runs")
             ELSE IF ~NoDup(t.solutions) THEN Err("duplicate run indices in solutions")
             ELSE IF ~elite.ok THEN elite
             ELSE Ok([runs |-> runs, elapsed |-> t.elapsed_time,
                      success |-> t.success_rate, mean |-> t.mean,
                      std |-> t.standard_deviation,
                      best_fitness |-> t.best_fitness,
                      best_accuracy |-> t.best_accuracy,
                      best_run |-> t.best_run, best_code |-> t.best_code,
                      solutions |-> t.solutions, elite |-> elite.val])

\* ------------------------------------------------------------------------
\*  Helpers for combining mean and standard deviation (fixed point: the
\*  result is the exact value rounded to the nearest 1/FScale).
\* ------------------------------------------------------------------------
RoundDiv(a, b) == (2 * a + b) \div (2 * b)

\* The integer nearest to sqrt(x / y), x >= 0, y > 0, at most bound.
RoundSqrt(x, y, bound) ==
    CHOOSE r \in 0..bound :
        /\ (r = 0 \/ (2 * r - 1) * (2 * r - 1) * y <= 4 * x)
        /\ (r = bound \/ 4 * x < (2 * r + 1) * (2 * r + 1) * y)

combine_mean(m1, n1, m2, n2) ==
    LET N == n1 + n2
    IN  IF N <= 0 THEN Err("Cannot combine means with total count 0")
        ELSE Ok(RoundDiv(n1 * m1 + n2 * m2, N))

combine_std(m1, s1, n1, m2, s2, n2) ==
    LET N == n1 + n2
        S == n1 * m1 + n2 * m2
        \* num = within / 1 + between / N^2, with M = S / N
        within == Max(n1 - 1, 0) * (s1 * s1) + Max(n2 - 1, 0) * (s2 * s2)
        between == n1 * (N * m1 - S) * (N * m1 - S) + n2 * (N * m2 - S) * (N * m2 - S)
    IN  IF N <= 0 THEN Err("Cannot combine std dev with total count 0")
        ELSE IF N = 1 THEN Ok(0)
        ELSE Ok(RoundSqrt(within * N * N + between, N * N * (N - 1),
                          2 * (Max(s1, s2) + Abs(m1 - m2)) + 1))

\* ------------------------------------------------------------------------
\*  Elite ranking.
\* ------------------------------------------------------------------------
\* Missing and non-finite values are treated as -inf so they sort last.
elite_key(item) ==
    LET f == item.fitness
        a == item.accuracy
    IN  << IF f # None /\ isfinite(f[1]) THEN f[1] ELSE NegInf,
           IF a # None /\ isfinite(a[1]) THEN a[1] ELSE NegInf >>

\* Python's tuple comparison k1 >= k2.
KeyGE(k1, k2) == k1[1] > k2[1] \/ (k1[1] = k2[1] /\ k1[2] >= k2[2])

\* A plausible slip: the candidates are left in pool order.
sorted_desc_forgotten(items) == items

\* sorted(items, key=elite_key, reverse=True): a stable sort, items of equal
\* key keep their order.
RECURSIVE sorted_desc(_)
sorted_desc(items) ==
    IF items = << >> THEN << >>
    ELSE LET n == Len(items)
             s == sorted_desc(SubSeq(items, 1, n - 1))
             it == items[n]
             k == Cardinality({i \in DOMAIN s : KeyGE(elite_key(s[i]), elite_key(it))})
         IN  SubSeq(s, 1, k) \o << it >> \o SubSeq(s, k + 1, Len(s))

\* The selection loop: skip the ids already seen, stop at n picked items.
RECURSIVE pick_unique(_, _, _, _, _)
pick_unique(items_sorted, i, seen, picked, n) ==
    IF i > Len(items_sorted) THEN picked
    ELSE IF items_sorted[i].id \in seen
    THEN pick_unique(items_sorted, i + 1, seen, picked, n)
    ELSE LET p == Append(picked, items_sorted[i])
         IN  IF Len(p) >= n THEN p
             ELSE pick_unique(items_sorted, i + 1, seen \cup {items_sorted[i].id}, p, n)

\* 1e-12 in units of 1e-13.
PercentileTol == 10

\* A plausible slip, the one the comment "if both exist and differ, prefer A"
\* describes: no mismatch is ever reported.
FracMismatch_prefer_a(f, g) == FALSE

\* abs(f - g) > 1e-12: two decimals of different q are at least 0.01 apart
\* (e stays far below 1e11).
FracMismatch(f, g) == f.q # g.q \/ Abs(f.e - g.e) > PercentileTol

\* int(runs * frac) then max(1, min(n, runs)); runs * e * 1e-13 never
\* reaches the next multiple of 1/100.
elite_target(runs, frac) == Max(1, Min((runs * frac.q) \div 100, runs))

\* A plausible slip: the id is copied without the offset.
offset_item_forgotten(it, off) == [id |-> it.id, fitness |-> it.fitness, accuracy |-> it.accuracy]

offset_item(it, off) == [id |-> it.id + off, fitness |-> it.fitness, accuracy |-> it.accuracy]

merge_elite(A, B, runs) ==
    LET eA == A.elite
        eB == B.elite
        frac == IF eA # None THEN eA[1].frac ELSE eB[1].frac
        items == (IF eA # None THEN eA[1].items ELSE << >>)
                 \o (IF eB # None
                     THEN [i \in DOMAIN eB[1].items |-> offset_item(eB[1].items[i], A.runs)]
                     ELSE << >>)
    IN  IF eA = None /\ eB = None THEN Ok(None)
        ELSE IF eA # None /\ eB # None /\ FracMismatch(eA[1].frac, eB[1].frac)
        THEN Err("Elite percentile mismatch")
        ELSE IF frac.q = 0 /\ frac.e = 0
        THEN Ok(Some([frac |-> frac, items |-> << >>]))
        ELSE Ok(Some([frac |-> frac,
                      items |-> pick_unique(sorted_desc(items), 1, {}, << >>,
                                            elite_target(runs, frac))]))

\* A plausible slip: a strict comparison, so that a tie selects B.
merge_best_strict(A, B) ==
    IF A.best_fitness # NaN /\ B.best_fitness # NaN /\ A.best_fitness > B.best_fitness
    THEN [fitness |-> A.best_fitness, accuracy |-> A.best_accuracy,
          run |-> A.best_run, code |-> A.best_code]
    ELSE [fitness |-> B.best_fitness, accuracy |-> B.best_accuracy,
          run |-> B.best_run + A.runs, code |-> B.best_code]

\* The best record: A's unless B's fitness is greater (or A's is NaN).
merge_best(A, B) ==
    IF FloatGE(A.best_fitness, B.best_fitness)
    THEN [fitness |-> A.best_fitness, accuracy |-> A.best_accuracy,
          run |-> A.best_run, code |-> A.best_code]
    ELSE [fitness |-> B.best_fitness, accuracy |-> B.best_accuracy,
          run |-> B.best_run + A.runs, code |-> B.best_code]

\* Plausible slips: the merged run count as the offset, B's runs before A's,
\* no offset at all.
merge_solutions_total_offset(A, B) ==
    A.solutions \o [i \in DOMAIN B.solutions |-> B.solutions[i] + A.runs + B.runs]

merge_solutions_b_first(A, B) ==
    [i \in DOMAIN B.solutions |-> B.solutions[i] + A.runs] \o A.solutions

merge_solutions_no_offset(A, B) ==
    A.solutions \o B.solutions

\* solutions = A["solutions"] + [s + A["runs"] for s in B["solutions"]]
merge_solutions(A, B) ==
    A.solutions \o [i \in DOMAIN B.solutions |-> B.solutions[i] + A.runs]

\* A plausible slip: the run count of the larger batch.
merged_runs_larger(A, B) == Max(A.runs, B.runs)

\* runs = A["runs"] + B["runs"]
merged_runs(A, B) == A.runs + B.runs

\* Lines 355-434 of merge_ultra_files: the merged summary.
merge_reports(A, B) ==
    LET runs == merged_runs(A, B)
        mean == combine_mean(A.mean, A.runs, B.mean, B.runs)
        std == combine_std(A.mean, A.std, A.runs, B.mean, B.std, B.runs)
        best == merge_best(A, B)
        elite == merge_elite(A, B, runs)
    IN  IF runs = 0 THEN Err("Merged runs is 0")
        ELSE IF ~mean.ok THEN mean
        ELSE IF ~std.ok THEN std
        ELSE IF ~elite.ok THEN elite
        ELSE Ok([runs |-> runs,
                 elapsed |-> A.elapsed + B.elapsed,
                 success |-> RoundDiv(A.success * A.runs + B.success * B.runs, runs),
                 mean |-> mean.val, std |-> std.val,
                 best_fitness |-> best.fitness, best_accuracy |-> best.accuracy,
                 best_run |-> best.run, best_code |-> best.code,
                 solutions |-> merge_solutions(A, B),
                 elite |-> elite.val])

\* ------------------------------------------------------------------------
\*  Serialisation and signature.
\* ------------------------------------------------------------------------
RoundTo(x, u) == ((2 * x + u) \div (2 * u)) * u

\* pct = frac * 100.0 written with 12 significant digits: a percentage with
\* k integer digits keeps 12 - k decimals, so k + 1 of the 13 decimals of the
\* model are rounded away; below 1 all the digits of e fit.
_format_percentile_attr(frac) ==
    LET u == IF frac.q >= 100 THEN 10000
             ELSE IF frac.q >= 10 THEN 1000
             ELSE IF frac.q >= 1 THEN 100
             ELSE 1
    IN  [q |-> 100 * frac.q, e |-> RoundTo(100 * frac.e, u)]

Placeholder == [j \in 1..CHECKSUM_LENGTH |-> 48]

\* Lines 436-472 of merge_ultra_files: the element tree of the merged
\* summary, with the placeholder checksum.
build_xml(m) ==
    [bad |-> {},
     runs |-> m.runs,
     elapsed_time |-> m.elapsed,
     success_rate |-> m.success,
     mean |-> m.mean,
     standard_deviation |-> m.std,
     best_fitness |-> m.best_fitness,
     best_accuracy |-> m.best_accuracy,
     best_run |-> m.best_run,
     best_code |-> m.best_code,
     solutions |-> m.solutions,
     elite |-> IF m.elite = None THEN None
               ELSE Some([bad |-> {},
                          percentile |-> _format_percentile_attr(m.elite[1].frac),
                          runs |-> [i \in DOMAIN m.elite[1].items |->
                                      [bad |-> {},
                                       id |-> m.elite[1].items[i].id,
                                       fitness |-> m.elite[1].items[i].fitness,
                                       accuracy |-> m.elite[1].items[i].accuracy]]]),
     checksum |-> Placeholder]

\* An element with a text: opening token, text, closing token (octet 0).
Elem(tag, text) == << tag >> \o text \o << 0 >>

RECURSIVE Flatten(_)
Flatten(texts) == IF texts = << >> THEN << >> ELSE Head(texts) \o Flatten(Tail(texts))

EliteRunText(r) ==
    << 12, 17 >> \o IntText(r.id)
    \o (IF r.fitness # None THEN Elem(10, FloatText(r.fitness[1])) ELSE << >>)
    \o (IF r.accuracy # None THEN Elem(11, FloatText(r.accuracy[1])) ELSE << >>)
    \o << 0 >>

\* ET.tostring(root, encoding="unicode"): the tokens are 1 ultra, 2 summary,
\* 3 runs, 4 elapsed_time, 5 success_rate, 6 distributions/fitness, 7 mean,
\* 8 standard_deviation, 9 best, 10 fitness, 11 accuracy, 12 run, 13 code,
\* 14 solutions, 15 elite, 16 percentile=, 17 id=, 18 checksum, 0 a closing tag.
tostring(t) ==
    << 1, 2 >>
    \o Elem(3, IntText(t.runs))
    \o Elem(4, IntText(t.elapsed_time))
    \o Elem(5, FixText(t.success_rate))
    \o << 6 >> \o Elem(7, FixText(t.mean)) \o Elem(8, FixText(t.standard_deviation)) \o << 0 >>
    \o << 9 >> \o Elem(10, FloatText(t.best_fitness)) \o Elem(11, FloatText(t.best_accuracy))
               \o Elem(12, IntText(t.best_run)) \o Elem(13, t.best_code) \o << 0 >>
    \o << 14 >> \o Flatten([i \in DOMAIN t.solutions |-> Elem(12, IntText(t.solutions[i]))])
                \o << 0 >>
    \o (IF t.elite = None THEN << >>
        ELSE << 15, 16 >> \o DecText(t.elite[1].percentile)
             \o Flatten([i \in DOMAIN t.elite[1].runs |-> EliteRunText(t.elite[1].runs[i])])
             \o << 0 >>)
    \o << 0 >>
    \o Elem(18, t.checksum)
    \o << 0 >>

\* A plausible slip: the checksum is computed over a text that already holds
\* a checksum instead of the placeholder.
embed_xml_signature_over_signed(xml) ==
    IF "xml" \in xml.bad THEN Err("Generated XML is not well-formed")
    ELSE IF "checksum" \in xml.bad THEN Err("No checksum tag found in generated XML")
    ELSE LET first == compute_crc32(tostring([xml EXCEPT !.checksum = Placeholder]))
             temp == tostring([xml EXCEPT !.checksum = first])
         IN  Ok([xml EXCEPT !.checksum = compute_crc32(temp)])

embed_xml_signature(xml) ==
    IF "xml" \in xml.bad THEN Err("Generated XML is not well-formed")
    ELSE IF "checksum" \in xml.bad THEN Err("No checksum tag found in generated XML")
    ELSE LET temp == tostring([xml EXCEPT !.checksum = Placeholder])
         IN  Ok([xml EXCEPT !.checksum = compute_crc32(temp)])

\* merge_ultra_files(path1, path2, output) as one call: the document it
\* writes to output and returns, or the error it raises.
merge_ultra_files(path1, path2) ==
    LET ra == parse_ultra_file(path1)
        rb == parse_ultra_file(path2)
    IN  IF ~ra.ok THEN ra
        ELSE IF ~rb.ok THEN rb
        ELSE LET m == merge_reports(ra.val, rb.val)
             IN  IF ~m.ok THEN m ELSE embed_xml_signature(build_xml(m.val))

\* ------------------------------------------------------------------------
\*  The input files of the model.
\* ------------------------------------------------------------------------
Item(id, v) == [bad |-> {}, id |-> id, fitness |-> v.fitness, accuracy |-> v.accuracy]

\* The values of the items of a lone elite block: a missing fitness, two
\* fitnesses.
ItemVals ==
    { [fitness |-> None, accuracy |-> None],
      [fitness |-> Some(10), accuracy |-> None],
      [fitness |-> Some(20), accuracy |-> None] }

\* The values of the items of two elite blocks that are pooled: a missing
\* value, a tie on fitness, a tie on both.
PairedVals ==
    { [fitness |-> None, accuracy |-> None],
      [fitness |-> Some(20), accuracy |-> None],
      [fitness |-> Some(20), accuracy |-> Some(1)] }

NonFiniteVals ==
    { [fitness |-> Some(PosInf), accuracy |-> None],
      [fitness |-> Some(NaN), accuracy |-> Some(1)],
      [fitness |-> Some(20), accuracy |-> Some(PosInf)] }

\* The sequences of at most maxlen distinct run indices below runs.
IdSeqs(runs, maxlen) ==
    {ids \in UNION {[1..k -> 0..(runs - 1)] : k \in 0..Min(maxlen, runs)} : NoDup(ids)}

ItemLists(runs, maxlen, vals) ==
    UNION { {[i \in DOMAIN ids |-> Item(ids[i], vs[i])] : vs \in [DOMAIN ids -> vals]}
            : ids \in IdSeqs(runs, maxlen) }

Frac(q, e) == [q |-> q, e |-> e]

\* 0, 1e-13 * 4, 0.05, 0.10, 0.5, 0.5 + 4e-13, 0.5 + 12e-13, 1.
FracSet == { Frac(0, 0), Frac(0, 4), Frac(5, 0), Frac(10, 0),
             Frac(50, 0), Frac(50, 4), Frac(50, 12), Frac(100, 0) }

\* The percentiles of a lone elite block: 0, 4e-13, 0.5, 1.
LoneFracSet == { Frac(0, 0), Frac(0, 4), Frac(50, 0), Frac(100, 0) }

BestFitValues == {5, 8, NaN}

\* A well-formed document of the first ("A") or second ("B") batch.
Doc(who, runs, bf, br, sols, elite) ==
    [bad |-> {},
     runs |-> runs,
     elapsed_time |-> IF who = "A" THEN 100 ELSE 50,
     success_rate |-> IF who = "A" THEN 5 ELSE 10,
     mean |-> IF who = "A" THEN 30 ELSE 70,
     standard_deviation |-> IF who = "A" THEN 10 ELSE 20,
     best_fitness |-> bf,
     best_accuracy |-> IF who = "A" THEN 1 ELSE 2,
     best_run |-> br,
     best_code |-> IF who = "A" THEN << 65 >> ELSE << 66 >>,
     solutions |-> sols,
     elite |-> elite,
     checksum |-> Placeholder]

EliteNode(frac, items) == Some([bad |-> {}, percentile |-> frac, runs |-> items])

DefaultDoc(who, runs) == Doc(who, runs, 5, 0, << >>, None)

\* Documents without an elite block: run count and best record vary.
BestDocs(who) ==
    { Doc(who, c.runs, c.bf, c.br, << >>, None) :
        c \in UNION { [runs : {r}, bf : BestFitValues, br : 0..(r - 1)] : r \in 1..MaxRuns } }

\* Documents without an elite block: run count and solutions vary.
SolutionDocs(who) ==
    { Doc(who, c.runs, 5, 0, c.sols, None) :
        c \in UNION { [runs : {r}, sols : IdSeqs(r, MaxSol)] : r \in 1..MaxRuns } }

\* Documents with an elite block of any percentile and item list.
EliteDocs(who, fracs, maxlen, vals) ==
    UNION { { Doc(who, r, 5, 0, << >>, EliteNode(c.frac, c.items)) :
                c \in [frac : fracs, items : ItemLists(r, maxlen, vals)] }
            : r \in 1..MaxRuns }

\* Documents whose elite block has the single item (0, v), of any percentile.
OneItemDocs(who, v) ==
    { Doc(who, c.runs, 5, 0, << >>, EliteNode(c.frac, << Item(0, v) >>)) :
        c \in [runs : 1..MaxRuns, frac : FracSet] }

\* Documents parse_ultra_file rejects, and the missing file.
BadFiles(who) ==
    LET d == Doc(who, 2, 5, 0, << 1 >>, EliteNode(Frac(50, 0), << Item(0, [fitness |-> Some(10), accuracy |-> None]) >>))
    IN  { None }
        \cup { Some([d EXCEPT !.bad = {n}]) :
                 n \in {"xml", "summary", "runs", "elapsed_time", "success_rate", "mean",
                        "standard_deviation", "best/fitness", "best/accuracy", "best/run",
                        "best/code", "solutions", "solutions/run"} }
        \cup { Some([d EXCEPT !.runs = 0]),
               Some([d EXCEPT !.elapsed_time = -1]),
               Some([d EXCEPT !.success_rate = 15]),
               Some([d EXCEPT !.success_rate = -1]),
               Some([d EXCEPT !.mean = NaN]),
               Some([d EXCEPT !.standard_deviation = -10]),
               Some([d EXCEPT !.standard_deviation = PosInf]),
               Some([d EXCEPT !.best_run = 2]),
               Some([d EXCEPT !.best_run = -1]),
               Some([d EXCEPT !.best_code = << >>]),
               Some([d EXCEPT !.solutions = << 2 >>]),
               Some([d EXCEPT !.solutions = << -1 >>]),
               Some([d EXCEPT !.solutions = << 1, 1 >>]),
               Some([d EXCEPT !.elite = EliteNode(Frac(-50, 0), << >>)]),
               Some([d EXCEPT !.elite = EliteNode(Frac(15000, 0), << >>)]),
               Some([d EXCEPT !.elite = Some([bad |-> {"percentile"}, percentile |-> Frac(0, 0), runs |-> << >>])]),
               Some([d EXCEPT !.elite = EliteNode(Frac(50, 0), << Item(2, [fitness |-> None, accuracy |-> None]) >>)]),
               Some([d EXCEPT !.elite = EliteNode(Frac(50, 0),
                        << Item(0, [fitness |-> None, accuracy |-> None]),
                           Item(0, [fitness |-> Some(10), accuracy |-> None]) >>)]),
               Some([d EXCEPT !.elite = EliteNode(Frac(50, 0),
                        << [bad |-> {"fitness"}, id |-> 0, fitness |-> None, accuracy |-> None] >>)]),
               Some([d EXCEPT !.elite = EliteNode(Frac(50, 0),
                        << [bad |-> {"id"}, id |-> 0, fitness |-> None, accuracy |-> None] >>)]),
               Some([d EXCEPT !.elite = EliteNode(Frac(50, 0),
                        << Item(-1, [fitness |-> None, accuracy |-> None]) >>)]) }

\* A document left at the output path by an earlier run.
StaleDoc == [DefaultDoc("A", 1) EXCEPT !.checksum = [j \in 1..CHECKSUM_LENGTH |-> 70]]

Somes(S) == {Some(d) : d \in S}

\* The inputs of the model: the two input files and the output path before
\* the merge.
InputConfigs ==
    \* no elite block: best selection
    [a : Somes(BestDocs("A")), b : Somes(BestDocs("B")), out : {None}]
    \* no elite block: solutions
    \cup [a : Somes(SolutionDocs("A")), b : Somes(SolutionDocs("B")),
          out : {None, Some(StaleDoc)}]
    \* an elite block in one input only
    \cup [a : Somes(EliteDocs("A", LoneFracSet, MaxElite, ItemVals)),
          b : {Some(DefaultDoc("B", r)) : r \in 1..MaxRuns}, out : {None}]
    \cup [a : {Some(DefaultDoc("A", r)) : r \in 1..MaxRuns},
          b : Somes(EliteDocs("B", LoneFracSet, MaxElite, ItemVals)), out : {None}]
    \* an elite block in both inputs: every pair of percentiles
    \cup [a : Somes(OneItemDocs("A", [fitness |-> Some(10), accuracy |-> None])),
          b : Somes(OneItemDocs("B", [fitness |-> Some(20), accuracy |-> None])),
          out : {None, Some(StaleDoc)}]
    \* an elite block in both inputs: item lists, one of them of one item at most
    \cup [a : Somes(EliteDocs("A", {Frac(50, 0)}, MaxElite, PairedVals)),
          b : Somes(EliteDocs("B", {Frac(50, 0)}, 1, PairedVals)), out : {None}]
    \cup [a : Somes(EliteDocs("A", {Frac(50, 0)}, 1, PairedVals)),
          b : Somes(EliteDocs("B", {Frac(50, 0)}, MaxElite, PairedVals)), out : {None}]
    \* non-finite fitness and accuracy
    \cup [a : Somes(EliteDocs("A", {Frac(100, 0)}, 1, NonFiniteVals \cup ItemVals)),
          b : Somes(EliteDocs("B", {Frac(100, 0)}, 1, NonFiniteVals)), out : {None}]
    \* a missing or invalid input
    \cup [a : BadFiles("A"), b : {Some(DefaultDoc("B", 1)), None},
          out : {None, Some(StaleDoc)}]
    \cup [a : {Some(DefaultDoc("A", 1))}, b : BadFiles("B"), out : {None, Some(StaleDoc)}]

\* ------------------------------------------------------------------------
\*  merge_ultra_files(path1, path2, output) as a state machine.
\* ------------------------------------------------------------------------
VARIABLES
    pc,          \* position in merge_ultra_files
    files,       \* the file system: path1, path2 and output
    A, B,        \* the parsed inputs, None before parsing
    merged,      \* the merged summary, None before it is computed
    xml_signed,  \* the signed document, None before it is computed
    err,         \* the message of the raised UltraParseError, "" if none
    writes,      \* number of writes to the output path
    \* merge_ultra_dirs(dir1, dir2, out_dir)
    dpc,           \* position in merge_ultra_dirs
    linesep,       \* os.linesep of the platform: "lf" or "crlf"
    fs,            \* the file system: dir1, dir2 and out_dir
    index_a,       \* a: the names index_by_name(dir1) found
    index_b,       \* b: the names index_by_name(dir2) found
    all_names,     \* sorted(set(a) | set(b))
    next_name,     \* position of the for loop in all_names
    merged_count,  \* merged
    copied_count,  \* copied
    calls,         \* calls of merge_ultra_files so far, per name
    printed,       \* the counts printed at the end, None before
    derr,          \* the message of the raised exception, "" if none
    \* an elite percentile read, written by a merge, and read again
    rpc,           \* position: "start", "parsed", "written", "reread", "rejected"
    attr_in,       \* the <elite> node of an input
    carried,       \* the fraction the merge carries, None before
    attr_out,      \* the <elite> node of the output, None before
    reread         \* the result of parsing the output's node, None before

\* The variables of merge_ultra_files, and those of merge_ultra_dirs.
vars == << pc, files, A, B, merged, xml_signed, err, writes >>

dvars == << dpc, linesep, fs, index_a, index_b, all_names, next_name,
            merged_count, copied_count, calls, printed, derr >>

rvars == << rpc, attr_in, carried, attr_out, reread >>

\* No percentile is being followed.
PercentileIdle ==
    /\ rpc = "idle"
    /\ attr_in = None
    /\ carried = None
    /\ attr_out = None
    /\ reread = None

\* A path that does not exist.
NoDir == [kind |-> "absent", entries |-> << >>]

\* merge_ultra_dirs is not running.
DirsIdle ==
    /\ dpc = "idle"
    /\ linesep = "lf"
    /\ fs = [dir1 |-> NoDir, dir2 |-> NoDir, out_dir |-> NoDir]
    /\ index_a = {}
    /\ index_b = {}
    /\ all_names = << >>
    /\ next_name = 1
    /\ merged_count = 0
    /\ copied_count = 0
    /\ calls = << >>
    /\ printed = None
    /\ derr = ""

Init ==
    /\ \E c \in InputConfigs : files = [path1 |-> c.a, path2 |-> c.b, output |-> c.out]
    /\ pc = "start"
    /\ A = None
    /\ B = None
    /\ merged = None
    /\ xml_signed = None
    /\ err = ""
    /\ writes = 0
    /\ DirsIdle
    /\ PercentileIdle

\* A = parse_ultra_file(path1)
ParseA ==
    /\ pc = "start"
    /\ LET r == parse_ultra_file(files.path1)
       IN  IF r.ok
           THEN A' = Some(r.val) /\ pc' = "parsedA" /\ err' = err
           ELSE A' = A /\ pc' = "failed" /\ err' = r.err
    /\ UNCHANGED << files, B, merged, xml_signed, writes >>
    /\ UNCHANGED << dvars, rvars >>

\* B = parse_ultra_file(path2)
ParseB ==
    /\ pc = "parsedA"
    /\ LET r == parse_ultra_file(files.path2)
       IN  IF r.ok
           THEN B' = Some(r.val) /\ pc' = "parsedB" /\ err' = err
           ELSE B' = B /\ pc' = "failed" /\ err' = r.err
    /\ UNCHANGED << files, A, merged, xml_signed, writes >>
    /\ UNCHANGED << dvars, rvars >>

\* A plausible slip: when the combination fails, the first input is saved as
\* the output.
Combine_fallback ==
    /\ pc = "parsedB"
    /\ LET r == merge_reports(A[1], B[1])
       IN  IF r.ok
           THEN merged' = Some(r.val) /\ pc' = "combined" /\ err' = err /\ files' = files
           ELSE /\ merged' = merged /\ pc' = "failed" /\ err' = r.err
                /\ files' = [files EXCEPT !.output = files.path1]
    /\ UNCHANGED << A, B, xml_signed, writes >>
    /\ UNCHANGED << dvars, rvars >>

\* The merged summary: runs, statistics, best, solutions, elite.
Combine ==
    /\ pc = "parsedB"
    /\ LET r == merge_reports(A[1], B[1])
       IN  IF r.ok
           THEN merged' = Some(r.val) /\ pc' = "combined" /\ err' = err
           ELSE merged' = merged /\ pc' = "failed" /\ err' = r.err
    /\ UNCHANGED << files, A, B, xml_signed, writes >>
    /\ UNCHANGED << dvars, rvars >>

\* Build the XML, convert to string, embed the real checksum.
Serialize ==
    /\ pc = "combined"
    /\ LET r == embed_xml_signature(build_xml(merged[1]))
       IN  IF r.ok
           THEN xml_signed' = Some(r.val) /\ pc' = "signed" /\ err' = err
           ELSE xml_signed' = xml_signed /\ pc' = "failed" /\ err' = r.err
    /\ UNCHANGED << files, A, B, merged, writes >>
    /\ UNCHANGED << dvars, rvars >>

\* output.write_text(xml_signed); return xml_signed
Save ==
    /\ pc = "signed"
    /\ files' = [files EXCEPT !.output = xml_signed]
    /\ writes' = writes + 1
    /\ pc' = "done"
    /\ UNCHANGED << A, B, merged, xml_signed, err >>
    /\ UNCHANGED << dvars, rvars >>

Next == ParseA \/ ParseB \/ Combine \/ Serialize \/ Save

Spec == Init /\ [][Next]_<< vars, dvars, rvars >>

TypeOK == pc \in {"start", "parsedA", "parsedB", "combined", "signed", "done", "failed"}

\* merge_ultra_files is not running.
MergeIdle ==
    /\ pc = "idle"
    /\ files = [path1 |-> None, path2 |-> None, output |-> None]
    /\ A = None
    /\ B = None
    /\ merged = None
    /\ xml_signed = None
    /\ err = ""
    /\ writes = 0

\* ------------------------------------------------------------------------
\*  merge_ultra_dirs(dir1, dir2, out_dir) as a state machine.
\*
\*  A path is [kind, entries]: kind is "absent", "file" or "dir", entries maps
\*  the names in a directory to its files.  The name k >= 1 stands for the
\*  file name "<k>.summary.xml", the name 0 for a file name without that
\*  suffix.  A file is [doc, eol]: its document and the line break its text
\*  uses, "lf", "crlf", or "none" for a text of a single line.
\* ------------------------------------------------------------------------
MaxNames == 2

TextFile(doc, eol) == [doc |-> doc, eol |-> eol]

Directory(entries) == [kind |-> "dir", entries |-> entries]

NotADir == [kind |-> "file", entries |-> << >>]

\* Path.read_text(encoding="utf-8"): universal newlines, "\r\n" is read as
\* "\n".
read_text(file) == [file EXCEPT !.eol = IF @ = "crlf" THEN "lf" ELSE @]

\* Path.write_text(text, encoding="utf-8"): "\n" is written as os.linesep.
write_text(text, sep) == [text EXCEPT !.eol = IF @ = "lf" THEN sep ELSE @]

\* out_dir.mkdir(parents=True, exist_ok=True)
mkdir(d) ==
    IF d.kind = "absent" THEN Ok(Directory(<< >>))
    ELSE IF d.kind = "dir" THEN Ok(d)
    ELSE Err("FileExistsError")

\* p.is_file() and p.name.endswith(".summary.xml")
IsSummaryName(n) == n >= 1

\* The keys of index_by_name(d); two files of a directory never share a
\* name, so the duplicate check of line 341 cannot fail.
index_by_name(d) ==
    IF d.kind = "absent" THEN Err("directory does not exist")
    ELSE IF d.kind # "dir" THEN Err("not a directory")
    ELSE Ok({n \in DOMAIN d.entries : IsSummaryName(n)})

\* sorted(S)
RECURSIVE SortedNames(_)
SortedNames(S) ==
    IF S = {} THEN << >>
    ELSE LET m == CHOOSE x \in S : \A y \in S : x <= y
         IN  << m >> \o SortedNames(S \ {m})

\* The directory entries with the file f under the name n.
Put(entries, n, f) ==
    [x \in (DOMAIN entries) \cup {n} |-> IF x = n THEN f ELSE entries[x]]

DriverDocA == Doc("A", 2, 5, 0, << 1 >>, None)
DriverDocB == Doc("B", 1, 8, 0, << 0 >>, None)

\* The files of the first directory: a summary with either line break, a
\* text that is not XML.
Dir1Files ==
    { TextFile(DriverDocA, "lf"), TextFile(DriverDocA, "crlf"),
      TextFile([DriverDocA EXCEPT !.bad = {"xml"}], "lf") }

Dir2Files == { TextFile(DriverDocB, "lf"), TextFile(DriverDocB, "crlf") }

\* The directories that hold some of the summary names, with files of pool.
Directories(pool) ==
    { Directory(f) : f \in UNION { [S -> pool] : S \in SUBSET (1..MaxNames) } }

StaleFile == TextFile(StaleDoc, "none")

\* The inputs of the driver: two directories, the output path, the platform.
DirConfigs ==
    [dir1 : Directories(Dir1Files), dir2 : Directories(Dir2Files),
     out_dir : {NoDir}, linesep : {"lf", "crlf"}]
    \* a file of another name in an input, files left in the output
    \cup [dir1 : { Directory(Put(d.entries, 0, TextFile(DriverDocA, "lf"))) :
                     d \in Directories({TextFile(DriverDocA, "lf")}) },
          dir2 : Directories({TextFile(DriverDocB, "lf")}),
          out_dir : { Directory(<< >>), Directory(Put(Put(<< >>, 0, StaleFile), 1, StaleFile)) },
          linesep : {"lf"}]
    \* a path that is missing or is not a directory
    \cup [dir1 : {NoDir, NotADir, Directory(Put(<< >>, 1, TextFile(DriverDocA, "lf")))},
          dir2 : {NoDir, NotADir, Directory(Put(<< >>, 1, TextFile(DriverDocB, "lf")))},
          out_dir : {NoDir, NotADir}, linesep : {"lf"}]

InitDirs ==
    /\ \E c \in DirConfigs : /\ fs = [dir1 |-> c.dir1, dir2 |-> c.dir2, out_dir |-> c.out_dir]
                             /\ linesep = c.linesep
    /\ dpc = "start"
    /\ index_a = {}
    /\ index_b = {}
    /\ all_names = << >>
    /\ next_name = 1
    /\ merged_count = 0
    /\ copied_count = 0
    /\ calls = << >>
    /\ printed = None
    /\ derr = ""
    /\ MergeIdle
    /\ PercentileIdle

\* Lines 488-500: create the output directory, index both inputs, sort the
\* union of the names.
IndexDirs ==
    /\ dpc = "start"
    /\ LET out == mkdir(fs.out_dir)
           ia == index_by_name(fs.dir1)
           ib == index_by_name(fs.dir2)
           fail(msg, created) ==
               /\ dpc' = "failed" /\ derr' = msg
               /\ fs' = IF created THEN [fs EXCEPT !.out_dir = out.val] ELSE fs
               /\ UNCHANGED << index_a, index_b, all_names, calls >>
       IN  IF ~out.ok THEN fail(out.err, FALSE)
           ELSE IF ~ia.ok THEN fail(ia.err, TRUE)
           ELSE IF ~ib.ok THEN fail(ib.err, TRUE)
           ELSE IF ia.val \cup ib.val = {}
           THEN fail("No *.summary.xml files found in either input directory", TRUE)
           ELSE /\ fs' = [fs EXCEPT !.out_dir = out.val]
                /\ index_a' = ia.val
                /\ index_b' = ib.val
                /\ all_names' = SortedNames(ia.val \cup ib.val)
                /\ calls' = [n \in ia.val \cup ib.val |-> 0]
                /\ dpc' = "loop"
                /\ derr' = derr
    /\ UNCHANGED << linesep, next_name, merged_count, copied_count, printed >>
    /\ UNCHANGED << vars, rvars >>

\* Lines 505-507: the name is in both indexes.
MergePair ==
    /\ dpc = "loop"
    /\ next_name <= Len(all_names)
    /\ LET name == all_names[next_name]
       IN  /\ name \in index_a /\ name \in index_b
           /\ calls' = [calls EXCEPT ![name] = @ + 1]
           /\ LET r == merge_ultra_files(Some(fs.dir1.entries[name].doc),
                                         Some(fs.dir2.entries[name].doc))
              IN  IF r.ok
                  THEN /\ fs' = [fs EXCEPT !.out_dir.entries =
                                   Put(@, name, write_text(TextFile(r.val, "none"), linesep))]
                       /\ merged_count' = merged_count + 1
                       /\ next_name' = next_name + 1
                       /\ UNCHANGED << dpc, derr >>
                  ELSE /\ dpc' = "failed"
                       /\ derr' = r.err
                       /\ UNCHANGED << fs, merged_count, next_name >>
    /\ UNCHANGED << linesep, index_a, index_b, all_names, copied_count, printed >>
    /\ UNCHANGED << vars, rvars >>

\* Lines 508-512: the name is in one index only.
CopySingle ==
    /\ dpc = "loop"
    /\ next_name <= Len(all_names)
    /\ LET name == all_names[next_name]
           src == IF name \in index_a THEN fs.dir1.entries[name] ELSE fs.dir2.entries[name]
       IN  /\ ~(name \in index_a /\ name \in index_b)
           /\ fs' = [fs EXCEPT !.out_dir.entries =
                       Put(@, name, write_text(read_text(src), linesep))]
    /\ copied_count' = copied_count + 1
    /\ next_name' = next_name + 1
    /\ UNCHANGED << dpc, linesep, index_a, index_b, all_names, merged_count, calls,
                    printed, derr >>
    /\ UNCHANGED << vars, rvars >>

\* Line 514: print(f"Merged: {merged}, copied: {copied}, total: {len(all_names)}")
PrintCounts ==
    /\ dpc = "loop"
    /\ next_name > Len(all_names)
    /\ printed' = Some([merged |-> merged_count, copied |-> copied_count,
                        total |-> Len(all_names)])
    /\ dpc' = "done"
    /\ UNCHANGED << linesep, fs, index_a, index_b, all_names, next_name, merged_count,
                    copied_count, calls, derr >>
    /\ UNCHANGED << vars, rvars >>

NextDirs == IndexDirs \/ MergePair \/ CopySingle \/ PrintCounts

SpecDirs == InitDirs /\ [][NextDirs]_<< vars, dvars, rvars >>

\* ------------------------------------------------------------------------
\*  An elite percentile through a merge and back: the attribute of an input
\*  is parsed (parse_elite), the fraction is carried by the merge and written
\*  to the output (lines 459-461), and the output is parsed again.
\* ------------------------------------------------------------------------
Hundredths == 0..100

\* Parts of a value below the hundredths, in units of 1e-13.
TinyParts == {0, 4, 12}

\* The percentile attributes of the inputs: fractions, percentages above 1
\* (whole percents, so that the division by 100 is exact in the model), values
\* out of range, and a node without the attribute.
PercentileAttrs ==
    { [bad |-> {}, percentile |-> Frac(q, e), runs |-> << >>] :
        q \in (Hundredths \ {100}), e \in TinyParts }
    \cup { [bad |-> {}, percentile |-> Frac(100 * k, 100 * e), runs |-> << >>] :
             k \in (Hundredths \ {0}), e \in TinyParts }
    \cup { [bad |-> {}, percentile |-> Frac(q, 0), runs |-> << >>] : q \in {-1, 10100} }
    \cup { [bad |-> {"percentile"}, percentile |-> Frac(0, 0), runs |-> << >>] }

InitPercentile ==
    /\ rpc = "start"
    /\ attr_in \in {Some(n) : n \in PercentileAttrs}
    /\ carried = None
    /\ attr_out = None
    /\ reread = None
    /\ MergeIdle
    /\ DirsIdle

\* Line 273: frac = _parse_percentile_attr(elite_node); with one elite block
\* or two that agree, frac is what the merge carries (line 399).
ParseAttr ==
    /\ rpc = "start"
    /\ LET r == _parse_percentile_attr(attr_in[1])
       IN  IF r.ok
           THEN carried' = Some(r.val) /\ rpc' = "parsed"
           ELSE carried' = carried /\ rpc' = "rejected"
    /\ UNCHANGED << attr_in, attr_out, reread >>
    /\ UNCHANGED << vars, dvars >>

\* Lines 459-461: elite_node.set("percentile", _format_percentile_attr(frac))
WriteAttr ==
    /\ rpc = "parsed"
    /\ attr_out' = Some([bad |-> {}, percentile |-> _format_percentile_attr(carried[1]),
                         runs |-> << >>])
    /\ rpc' = "written"
    /\ UNCHANGED << attr_in, carried, reread >>
    /\ UNCHANGED << vars, dvars >>

\* The output is the input of a later merge: _parse_percentile_attr again.
ReparseAttr ==
    /\ rpc = "written"
    /\ reread' = Some(_parse_percentile_attr(attr_out[1]))
    /\ rpc' = "reread"
    /\ UNCHANGED << attr_in, carried, attr_out >>
    /\ UNCHANGED << vars, dvars >>

NextPercentile == ParseAttr \/ WriteAttr \/ ReparseAttr

SpecPercentile == InitPercentile /\ [][NextPercentile]_<< vars, dvars, rvars >>

\* ------------------------------------------------------------------------
\*  Properties.
\* ------------------------------------------------------------------------
Combined == pc \in {"combined", "signed", "done"}

\* C1: a successful merge produces a report, and an output document, whose
\* run count is A.run_count + B.run_count.
C1_RunCountIsSum ==
    /\ Combined => merged[1].runs = A[1].runs + B[1].runs
    /\ pc = "done" => files.output[1].runs = A[1].runs + B[1].runs

C1_Witness ==
    /\ pc = "done"
    /\ A[1].runs = 2 /\ B[1].runs = 1
    /\ files.output[1].runs = 3

Range(xs) == {xs[i] : i \in DOMAIN xs}

\* The run ids of a parsed or merged elite block, << >> when there is none.
EliteIds(elite) == IF elite = None THEN << >>
                   ELSE [i \in DOMAIN elite[1].items |-> elite[1].items[i].id]

\* The run ids of the elite block of a document, << >> when there is none.
DocEliteIds(doc) == IF doc.elite = None THEN << >>
                    ELSE [i \in DOMAIN doc.elite[1].runs |-> doc.elite[1].runs[i].id]

\* C2: every merged solution index and every merged elite run id lies in
\* [0, A.run_count + B.run_count), in the merged summary and in the written
\* document.
C2_IndicesBelowRunCount ==
    /\ Combined =>
         \A v \in Range(merged[1].solutions) \cup Range(EliteIds(merged[1].elite)) :
             0 <= v /\ v < A[1].runs + B[1].runs
    /\ pc = "done" =>
         \A v \in Range(files.output[1].solutions) \cup Range(DocEliteIds(files.output[1])) :
             0 <= v /\ v < A[1].runs + B[1].runs

\* B's last run is a solution and is elite: both get the largest merged index.
C2_Witness ==
    /\ pc = "done"
    /\ A[1].runs = 2 /\ B[1].runs = 2
    /\ B[1].elite # None /\ 1 \in Range(EliteIds(B[1].elite))
    /\ 3 \in Range(DocEliteIds(files.output[1]))

C2_WitnessSolutions ==
    /\ pc = "done"
    /\ A[1].runs = 2 /\ B[1].runs = 2
    /\ 1 \in Range(B[1].solutions)
    /\ 3 \in Range(files.output[1].solutions)

\* C3: the merged best is A's record, run index unchanged, when
\* A.best.fitness >= B.best.fitness, and otherwise B's record with run index
\* B.best.run_index + A.run_count; the index lies in [0, merged run count)
\* and in [A.run_count, merged run count) exactly when B was chosen.
C3_BestSelection ==
    Combined =>
      LET a == A[1]
          b == B[1]
          m == merged[1]
          aWins == a.best_fitness # NaN /\ b.best_fitness # NaN
                   /\ a.best_fitness >= b.best_fitness
      IN  /\ aWins => /\ m.best_fitness = a.best_fitness
                      /\ m.best_accuracy = a.best_accuracy
                      /\ m.best_code = a.best_code
                      /\ m.best_run = a.best_run
          /\ ~aWins => /\ m.best_fitness = b.best_fitness
                       /\ m.best_accuracy = b.best_accuracy
                       /\ m.best_code = b.best_code
                       /\ m.best_run = b.best_run + a.runs
          /\ 0 <= m.best_run /\ m.best_run < a.runs + b.runs
          /\ (a.runs <= m.best_run) <=> ~aWins
          /\ pc = "done" =>
               /\ files.output[1].best_fitness = m.best_fitness
               /\ files.output[1].best_accuracy = m.best_accuracy
               /\ files.output[1].best_code = m.best_code
               /\ files.output[1].best_run = m.best_run

\* A best fitness 5, B best fitness 8 at run 1: B's record at run 1 + 2.
C3_Witness ==
    /\ pc = "done"
    /\ A[1].runs = 2 /\ A[1].best_fitness = 5 /\ A[1].best_run = 1
    /\ B[1].runs = 2 /\ B[1].best_fitness = 8 /\ B[1].best_run = 1
    /\ files.output[1].best_run = 3
    /\ files.output[1].best_code = B[1].best_code

\* A tie: A's record is kept.
C3_WitnessTie ==
    /\ pc = "done"
    /\ A[1].best_fitness = 8 /\ B[1].best_fitness = 8
    /\ A[1].best_run = 1
    /\ files.output[1].best_run = 1
    /\ files.output[1].best_code = A[1].best_code

\* C9: the merged solution runs are A's indices in their order followed by
\* B's indices in their order, each increased by A.run_count; the length is
\* the sum of the two lengths.
C9_SolutionsConcatenated ==
    Combined =>
      LET a == A[1]
          b == B[1]
          sol == merged[1].solutions
      IN  /\ Len(sol) = Len(a.solutions) + Len(b.solutions)
          /\ \A i \in 1..Len(a.solutions) : sol[i] = a.solutions[i]
          /\ \A i \in 1..Len(b.solutions) : sol[Len(a.solutions) + i] = b.solutions[i] + a.runs
          /\ pc = "done" => files.output[1].solutions = sol

C9_Witness ==
    /\ pc = "done"
    /\ A[1].runs = 2 /\ A[1].solutions = << 1, 0 >>
    /\ B[1].solutions = << 1, 0 >>
    /\ files.output[1].solutions = << 1, 0, 3, 2 >>

\* C10: the merged solution runs contain no repeated index and the merged
\* elite items no repeated run id.
C10_NoDuplicates ==
    /\ Combined =>
         /\ \A i, j \in DOMAIN merged[1].solutions :
              merged[1].solutions[i] = merged[1].solutions[j] => i = j
         /\ LET ids == EliteIds(merged[1].elite)
            IN  \A i, j \in DOMAIN ids : ids[i] = ids[j] => i = j
    /\ pc = "done" =>
         /\ \A i, j \in DOMAIN files.output[1].solutions :
              files.output[1].solutions[i] = files.output[1].solutions[j] => i = j
         /\ LET ids == DocEliteIds(files.output[1])
            IN  \A i, j \in DOMAIN ids : ids[i] = ids[j] => i = j

\* Both batches have run 0 as a solution and as an elite run.
C10_Witness ==
    /\ pc = "done"
    /\ 0 \in Range(A[1].solutions) /\ 0 \in Range(B[1].solutions)
    /\ Len(files.output[1].solutions) >= 2

C10_WitnessElite ==
    /\ pc = "done"
    /\ 0 \in Range(EliteIds(A[1].elite)) /\ 0 \in Range(EliteIds(B[1].elite))
    /\ Len(DocEliteIds(files.output[1])) >= 2

BothParsed == A # None /\ B # None

\* |f - g| > 1e-12 on the decimals q/100 + e * 1e-13.
DiffersBeyondTolerance(f, g) == f.q # g.q \/ f.e - g.e > 10 \/ g.e - f.e > 10

C4_WitnessAgree ==
    /\ pc = "done"
    /\ A[1].elite # None /\ A[1].elite[1].frac = Frac(50, 0)
    /\ B[1].elite # None /\ B[1].elite[1].frac = Frac(50, 0)
    /\ merged[1].elite[1].frac = Frac(50, 0)

\* C5: the output path is written once, by the last step, with the complete
\* signed document, after both inputs have been parsed and validated and the
\* combination has succeeded; a failed merge has not touched the output path.
C5_AllOrNothing ==
    /\ [](pc = "failed" => writes = 0 /\ err # "" /\ xml_signed = None)
    /\ [](pc = "done" => writes = 1 /\ files.output = xml_signed)
    /\ [][ pc \notin {"done", "failed"} ]_vars
    /\ [][ (files'.output # files.output \/ writes' # writes) =>
             /\ pc = "signed" /\ pc' = "done"
             /\ writes = 0 /\ writes' = 1
             /\ parse_ultra_file(files.path1).ok /\ A = Some(parse_ultra_file(files.path1).val)
             /\ parse_ultra_file(files.path2).ok /\ B = Some(parse_ultra_file(files.path2).val)
             /\ merged # None
             /\ files'.output = xml_signed
             /\ xml_signed = Some([build_xml(merged[1]) EXCEPT
                                    !.checksum = compute_crc32(tostring(build_xml(merged[1])))])
             /\ files'.path1 = files.path1 /\ files'.path2 = files.path2 ]_vars

\* The second input has success_rate 1.5: the merge has failed after the first
\* input was parsed, and the document at the output path is still the old one.
C5_Witness ==
    /\ pc = "failed"
    /\ A # None
    /\ files.path2 # None /\ files.path2[1].bad = {} /\ files.path2[1].success_rate = 15
    /\ err = "success_rate out of range"
    /\ writes = 0
    /\ files.output = Some(StaleDoc)

\* A successful merge has replaced the old document by the signed one.
C5_WitnessDone ==
    /\ pc = "done"
    /\ writes = 1
    /\ files.output = xml_signed
    /\ files.output # Some(StaleDoc)

\* ---- ranking --------------------------------------------------------------
RankValue(o) == IF o = None THEN NegInf
                ELSE IF o[1] \in {NaN, PosInf, NegInf} THEN NegInf ELSE o[1]

\* x ranks before y: a greater (fitness, accuracy), or an equal one and an
\* earlier place in the pool.
RanksBefore(pool, i, j) ==
    LET fi == RankValue(pool[i].fitness)
        fj == RankValue(pool[j].fitness)
        ai == RankValue(pool[i].accuracy)
        aj == RankValue(pool[j].accuracy)
    IN  \/ fi > fj
        \/ fi = fj /\ ai > aj
        \/ fi = fj /\ ai = aj /\ i < j

\* res is the first min(n, |pool|) items of pool in best-first order.
IsBestFirstPrefix(res, pool, n) ==
    /\ Len(res) = Min(n, Len(pool))
    /\ \E pos \in [DOMAIN res -> DOMAIN pool] :
         /\ \A i \in DOMAIN res : res[i] = pool[pos[i]]
         /\ \A i, j \in DOMAIN res : i < j => RanksBefore(pool, pos[i], pos[j])
         /\ \A j \in DOMAIN pool :
              (\A i \in DOMAIN res : pos[i] # j) =>
                  \A i \in DOMAIN res : RanksBefore(pool, pos[i], j)

\* clamp(floor(f * runs), 1, runs), f = q/100 + e * 1e-13
TargetSize(f, runs) ==
    LET fl == (f.q * runs) \div 100
    IN  IF fl < 1 THEN 1 ELSE IF fl > runs THEN runs ELSE fl

OffsetItems(items, off) ==
    [i \in DOMAIN items |-> [id |-> items[i].id + off, fitness |-> items[i].fitness,
                             accuracy |-> items[i].accuracy]]

\* The elite runs of the written document are the merged items.
DocEliteMatches(doc, elite) ==
    /\ (doc.elite = None) <=> (elite = None)
    /\ elite # None =>
         /\ Len(doc.elite[1].runs) = Len(elite[1].items)
         /\ \A i \in DOMAIN elite[1].items :
              /\ doc.elite[1].runs[i].id = elite[1].items[i].id
              /\ doc.elite[1].runs[i].fitness = elite[1].items[i].fitness
              /\ doc.elite[1].runs[i].accuracy = elite[1].items[i].accuracy

ExactlyOneElite == BothParsed /\ ((A[1].elite = None) # (B[1].elite = None))

\* The single elite block, its ids in the merged numbering.
SingleElite ==
    IF A[1].elite # None THEN A[1].elite[1]
    ELSE [frac |-> B[1].elite[1].frac, items |-> OffsetItems(B[1].elite[1].items, A[1].runs)]

\* C6 as stated: with exactly one elite block, the merged elite is that
\* block as it is (ids offset when it is B's): same items, same order.
C6_UsedAsIs ==
    (Combined /\ ExactlyOneElite) =>
        /\ merged[1].elite # None
        /\ merged[1].elite[1].frac = SingleElite.frac
        /\ merged[1].elite[1].items = SingleElite.items

\* C6 amended: with exactly one elite block, the merged elite carries that
\* block's percentile f, and its items are selected from that block's items
\* (ids offset by A.run_count when it is B's, fitness and accuracy unchanged)
\* as in the two-block case: none when f = 0, otherwise the first
\* min(n, number of items) in best-first order, n = clamp(floor(f * merged
\* run count), 1, merged run count).
C6_OneBlockSelected ==
    (Combined /\ ExactlyOneElite) =>
        /\ merged[1].elite # None
        /\ merged[1].elite[1].frac = SingleElite.frac
        /\ IF SingleElite.frac = Frac(0, 0)
           THEN merged[1].elite[1].items = << >>
           ELSE IsBestFirstPrefix(merged[1].elite[1].items, SingleElite.items,
                                  TargetSize(SingleElite.frac, A[1].runs + B[1].runs))
        /\ pc = "done" => DocEliteMatches(files.output[1], merged[1].elite)

\* B alone has an elite block, 100 percent, its two runs listed worst first:
\* the merged block lists them best first, with the ids offset.
C6_Witness ==
    /\ pc = "done"
    /\ A[1].elite = None /\ A[1].runs = 2
    /\ B[1].elite # None /\ B[1].elite[1].frac = Frac(100, 0)
    /\ B[1].elite[1].items = << [id |-> 0, fitness |-> Some(10), accuracy |-> None],
                                [id |-> 1, fitness |-> Some(20), accuracy |-> None] >>
    /\ merged[1].elite[1].items = << [id |-> 3, fitness |-> Some(20), accuracy |-> None],
                                     [id |-> 2, fitness |-> Some(10), accuracy |-> None] >>

SameFractionElites ==
    /\ BothParsed
    /\ A[1].elite # None /\ B[1].elite # None
    /\ A[1].elite[1].frac = B[1].elite[1].frac

\* C7: with an elite block of the same fraction f in both inputs, the merged
\* item list is empty when f = 0 and otherwise the first min(n, |pool|) items
\* of the pool (A's items, then B's with ids offset by A.run_count) in
\* best-first order of (fitness, accuracy), a missing or non-finite value
\* ranking as -infinity, n = clamp(floor(f * merged run count), 1, merged run
\* count).
C7_BothBlocksRanked ==
    (Combined /\ SameFractionElites) =>
        LET f == A[1].elite[1].frac
            pool == A[1].elite[1].items \o OffsetItems(B[1].elite[1].items, A[1].runs)
        IN  /\ merged[1].elite # None
            /\ merged[1].elite[1].frac = f
            /\ IF f = Frac(0, 0)
               THEN merged[1].elite[1].items = << >>
               ELSE IsBestFirstPrefix(merged[1].elite[1].items, pool,
                                      TargetSize(f, A[1].runs + B[1].runs))
            /\ pc = "done" => DocEliteMatches(files.output[1], merged[1].elite)

\* A: 2 runs, 0.5, run 0 of fitness 10; B: 2 runs, 0.5, run 0 of fitness 20.
C7_Witness ==
    /\ pc = "done"
    /\ A[1].runs = 2 /\ B[1].runs = 2
    /\ SameFractionElites /\ A[1].elite[1].frac = Frac(50, 0)
    /\ A[1].elite[1].items = << [id |-> 0, fitness |-> Some(10), accuracy |-> None] >>
    /\ B[1].elite[1].items = << [id |-> 0, fitness |-> Some(20), accuracy |-> None] >>
    /\ merged[1].elite[1].items = << [id |-> 2, fitness |-> Some(20), accuracy |-> None],
                                     [id |-> 0, fitness |-> Some(10), accuracy |-> None] >>

\* The pool is larger than the target size: the worst candidate is left out.
C7_WitnessTruncated ==
    /\ pc = "done"
    /\ SameFractionElites /\ A[1].elite[1].frac = Frac(50, 0)
    /\ Len(A[1].elite[1].items) + Len(B[1].elite[1].items) = 3
    /\ Len(merged[1].elite[1].items) = 2
    /\ merged[1].elite[1].items[1].id >= A[1].runs
    /\ merged[1].elite[1].items[2].id < A[1].runs

\* fraction 0: no item is kept
C7_WitnessZero ==
    /\ pc = "done"
    /\ SameFractionElites /\ A[1].elite[1].frac = Frac(0, 0)
    /\ A[1].elite[1].items # << >>
    /\ merged[1].elite[1].items = << >>

HexDigitsUpper == (48..57) \cup (65..70)

\* C8: in every written document the checksum field is 8 uppercase
\* hexadecimal digits and equals the checksum of the rendering in which the
\* field holds the 8-zero placeholder; the signed rendering differs from that
\* one in the checksum field only.
C8_ChecksumSelfConsistent ==
    pc = "done" =>
        LET doc == files.output[1]
            blank == [doc EXCEPT !.checksum = [j \in 1..8 |-> 48]]
            signedText == tostring(doc)
            blankText == tostring(blank)
            n == Len(blankText)
        IN  /\ Len(doc.checksum) = 8
            /\ \A j \in 1..8 : doc.checksum[j] \in HexDigitsUpper
            /\ compute_crc32(blankText) = doc.checksum
            /\ blank = build_xml(merged[1])
            /\ Len(signedText) = n
            /\ \A k \in 1..n : signedText[k] # blankText[k] => (n - 9 <= k /\ k <= n - 2)
            /\ SubSeq(signedText, n - 9, n - 2) = doc.checksum

C8_Witness ==
    /\ pc = "done"
    /\ files.output[1].elite # None
    /\ files.output[1].solutions # << >> \/ Len(files.output[1].elite[1].runs) = 2
    /\ files.output[1].checksum # [j \in 1..8 |-> 48]
    /\ \E j \in 1..8 : files.output[1].checksum[j] \in 65..70

\* The nodes and attributes a summary must hold with a usable text.
RequiredFields ==
    {"summary", "runs", "elapsed_time", "success_rate", "mean", "standard_deviation",
     "best/fitness", "best/accuracy", "best/run", "best/code", "solutions", "solutions/run"}

\* The elite block of document d breaks one of the conditions on elite
\* blocks: percentile (a fraction, or a percentage above 1) outside [0, 1]
\* resp. [0, 100], an id absent, out of range or repeated.
EliteBreaksContract(d) ==
    /\ d.elite # None
    /\ LET e == d.elite[1]
       IN  \/ "percentile" \in e.bad
           \/ e.percentile.q < 0
           \/ e.percentile.q > 10000
           \/ (e.percentile.q = 10000 /\ e.percentile.e > 0)
           \/ \E i \in DOMAIN e.runs : "id" \in e.runs[i].bad
           \/ \E i \in DOMAIN e.runs : e.runs[i].id < 0 \/ e.runs[i].id >= d.runs
           \/ \E i, j \in DOMAIN e.runs : i # j /\ e.runs[i].id = e.runs[j].id

\* Document d breaks one of the conditions of a report, or lacks a required
\* field.
BreaksContract(d) ==
    \/ d.bad \cap RequiredFields # {}
    \/ d.runs <= 0
    \/ d.elapsed_time < 0
    \/ ~(FloatGE(d.success_rate, 0) /\ FloatGE(FScale, d.success_rate))
    \/ ~FloatGE(d.standard_deviation, 0)
    \/ d.best_run < 0 \/ d.best_run >= d.runs
    \/ d.best_code = << >>
    \/ \E i \in DOMAIN d.solutions : d.solutions[i] < 0 \/ d.solutions[i] >= d.runs
    \/ \E i, j \in DOMAIN d.solutions : i # j /\ d.solutions[i] = d.solutions[j]
    \/ EliteBreaksContract(d)

\* Report r meets every condition of a report.
MeetsContract(r) ==
    /\ r.runs > 0
    /\ r.elapsed >= 0
    /\ FloatGE(r.success, 0) /\ FloatGE(FScale, r.success)
    /\ FloatGE(r.std, 0)
    /\ r.best_run \in 0..(r.runs - 1)
    /\ \A i \in DOMAIN r.solutions : r.solutions[i] \in 0..(r.runs - 1)
    /\ \A i, j \in DOMAIN r.solutions : i # j => r.solutions[i] # r.solutions[j]
    /\ r.elite # None =>
         LET e == r.elite[1]
         IN  /\ e.frac.q >= 0
             /\ e.frac.q < 100 \/ (e.frac.q = 100 /\ e.frac.e = 0)
             /\ \A i \in DOMAIN e.items : e.items[i].id \in 0..(r.runs - 1)
             /\ \A i, j \in DOMAIN e.items : i # j => e.items[i].id # e.items[j].id

\* Report r holds every field of document d: nothing is left out.
WholeReport(d, r) ==
    /\ r.runs = d.runs /\ r.elapsed = d.elapsed_time /\ r.success = d.success_rate
    /\ r.mean = d.mean /\ r.std = d.standard_deviation
    /\ r.best_fitness = d.best_fitness /\ r.best_accuracy = d.best_accuracy
    /\ r.best_run = d.best_run /\ r.best_code = d.best_code
    /\ r.solutions = d.solutions
    /\ (r.elite = None) = (d.elite = None)
    /\ r.elite # None =>
         /\ Len(r.elite[1].items) = Len(d.elite[1].runs)
         /\ \A i \in DOMAIN r.elite[1].items :
              /\ r.elite[1].items[i].id = d.elite[1].runs[i].id
              /\ r.elite[1].items[i].fitness = d.elite[1].runs[i].fitness
              /\ r.elite[1].items[i].accuracy = d.elite[1].runs[i].accuracy

\* C11: parse_ultra_file returns a report only for a document that meets
\* every condition (positive run count, non-negative elapsed time, success
\* rate in [0, 1], standard deviation >= 0, best run and solutions below the
\* run count, solutions distinct, elite percentile in [0, 1], elite ids below
\* the run count and distinct), and the report is whole; a document that
\* breaks a condition or lacks a required field raises an error and leaves
\* no report, not even a partial one; a document without an elite block is
\* accepted with elite = None.
C11_FailFastValidator ==
    /\ A # None =>
         /\ files.path1 # None
         /\ ~BreaksContract(files.path1[1])
         /\ MeetsContract(A[1])
         /\ WholeReport(files.path1[1], A[1])
    /\ B # None =>
         /\ files.path2 # None
         /\ ~BreaksContract(files.path2[1])
         /\ MeetsContract(B[1])
         /\ WholeReport(files.path2[1], B[1])
    /\ (pc # "start" /\ files.path1 # None /\ BreaksContract(files.path1[1]))
         => (pc = "failed" /\ A = None /\ err # "" /\ writes = 0)
    /\ (pc \notin {"start", "parsedA"} /\ A # None
          /\ files.path2 # None /\ BreaksContract(files.path2[1]))
         => (pc = "failed" /\ B = None /\ err # "" /\ writes = 0)
    /\ (pc # "start" /\ files.path1 # None /\ ~BreaksContract(files.path1[1])
          /\ files.path1[1].bad = {} /\ isfinite(files.path1[1].mean)
          /\ isfinite(files.path1[1].standard_deviation)
          /\ files.path1[1].elite = None)
         => (A # None /\ A[1].elite = None)

\* A document with every field present and an elite id equal to the run
\* count has been rejected.
C11_Witness ==
    /\ pc = "failed"
    /\ A = None
    /\ files.path1 # None
    /\ files.path1[1].bad = {}
    /\ files.path1[1].elite # None
    /\ \E i \in DOMAIN files.path1[1].elite[1].runs :
         files.path1[1].elite[1].runs[i].id = files.path1[1].runs
    /\ err = "elite run: id out of range"

\* The second document lacks a required field: the first report is dropped
\* with it.
C11_WitnessMissing ==
    /\ pc = "failed"
    /\ A # None
    /\ B = None
    /\ files.path2 # None
    /\ "best/run" \in files.path2[1].bad

\* A document without an elite block has been accepted.
C11_WitnessNoElite ==
    /\ pc = "parsedA"
    /\ files.path1[1].elite = None
    /\ A[1].elite = None
    /\ A[1].solutions # << >>

\* The summary names of a directory.
SummaryNames(d) == {n \in DOMAIN d.entries : n >= 1}

NamesInBoth == SummaryNames(fs.dir1) \cap SummaryNames(fs.dir2)

NamesInOne == (SummaryNames(fs.dir1) \cup SummaryNames(fs.dir2)) \ NamesInBoth

\* The input file of a name that one directory only holds.
SingleSource(n) ==
    IF n \in SummaryNames(fs.dir1) THEN fs.dir1.entries[n] ELSE fs.dir2.entries[n]

\* What C12 says of the calls, the output names and the counts.
DriverCallsAndCounts ==
    /\ \A n \in NamesInBoth : calls[n] = 1
    /\ \A n \in NamesInOne : calls[n] = 0
    /\ \A n \in NamesInBoth \cup NamesInOne : n \in DOMAIN fs.out_dir.entries
    /\ \A n \in NamesInBoth :
         fs.out_dir.entries[n].doc =
             merge_ultra_files(Some(fs.dir1.entries[n].doc), Some(fs.dir2.entries[n].doc)).val
    /\ printed = Some([merged |-> Cardinality(NamesInBoth),
                       copied |-> Cardinality(NamesInOne),
                       total |-> Cardinality(NamesInBoth \cup NamesInOne)])
    /\ printed[1].merged + printed[1].copied = printed[1].total

\* C12: when merge_ultra_dirs completes, merge_ultra_files has been called
\* exactly once for each name in both directories, each name in one
\* directory only has been copied unchanged to the output directory, every
\* name of the union has an output file, and the printed counts are
\* merged = |names in both|, copied = |names in one only|, their sum the total.
C12_DriverContract ==
    dpc = "done" =>
        /\ DriverCallsAndCounts
        /\ \A n \in NamesInOne : fs.out_dir.entries[n] = SingleSource(n)

\* C12 without the line breaks: all of it holds when a copy is compared with
\* its source as a document.
C12_UpToLineBreaks ==
    dpc = "done" =>
        /\ DriverCallsAndCounts
        /\ \A n \in NamesInOne : fs.out_dir.entries[n].doc = SingleSource(n).doc
        /\ \A n \in NamesInOne :
             SingleSource(n).eol = (IF linesep = "lf" THEN "lf" ELSE "crlf")
                 => fs.out_dir.entries[n] = SingleSource(n)

\* The driver has completed with a merged name and a copied one.
C12_Witness ==
    /\ dpc = "done"
    /\ NamesInBoth # {}
    /\ NamesInOne # {}
    /\ printed[1].total = 2

\* A copy differs from its source.
C12_WitnessChangedCopy ==
    /\ dpc = "done"
    /\ linesep = "lf"
    /\ \E n \in NamesInOne :
         /\ SingleSource(n).eol = "crlf"
         /\ fs.out_dir.entries[n].eol = "lf"

\* C13: a fraction a merge carries, written by _format_percentile_attr and
\* read back by _parse_percentile_attr, comes back as the same fraction.
C13_PercentileRoundTrip ==
    rpc = "reread" => (reread[1].ok /\ reread[1].val = carried[1])

\* C13 where it holds: zero, and the fractions above 0.01 whose percentage
\* has at most 12 significant digits, come back unchanged.
C13_RoundTripOfShortPercents ==
    (rpc = "reread" /\ carried[1].e = 0 /\ carried[1].q # 1)
        => (reread[1].ok /\ reread[1].val = carried[1])

\* C13 where it fails: a fraction of at most 0.01, other than zero, comes
\* back multiplied by 100.
C13_SmallFractionsComeBackAsPercents ==
    (rpc = "reread" /\ carried[1].q <= 1 /\ carried[1] # Frac(0, 0) /\ carried[1] # Frac(1, 4)
                    /\ carried[1] # Frac(1, 12))
        => (reread[1].ok /\ reread[1].val = Frac(100 * carried[1].q, 100 * carried[1].e))

\* The fraction 0.05 has made the round trip.
C13_Witness ==
    /\ rpc = "reread"
    /\ carried = Some(Frac(5, 0))
    /\ attr_out[1].percentile = Frac(500, 0)
    /\ reread[1].val = Frac(5, 0)

\* The fraction 0.01 has come back as 1.
C13_WitnessOnePercent ==
    /\ rpc = "reread"
    /\ attr_in[1].percentile = Frac(1, 0)
    /\ carried = Some(Frac(1, 0))
    /\ attr_out[1].percentile = Frac(100, 0)
    /\ reread[1].val = Frac(100, 0)
====
